---- MODULE Spec2Model ----
(***************************************************************************)
(* Multi-Site Laminate Stock Management (CliffordRd.py).                   *)
(*                                                                         *)
(* A Streamlit page: every user interaction re-runs the script top to      *)
(* bottom for that session.  A session holds its own DataFrame df, loaded  *)
(* from the shared Google sheet; the editor shows the Rolls / Pallets /    *)
(* SquareM columns of the selected site and month; "Save" derives Pallets  *)
(* and SquareM from Rolls for every row, mutating df in place and sending  *)
(* one batch of cell writes to the sheet; the gross summary and the trend  *)
(* are recomputed from df at the end of every run.                         *)
(*                                                                         *)
(* Numbers are exact decimals held in thousandths (2.5 is 2500).  Text     *)
(* cells are sequences of one-character strings, so that str(), replace(), *)
(* strip() and float() are computed and not assumed.                       *)
(***************************************************************************)
EXTENDS Integers, Sequences, FiniteSets, TLC

----------------------------------------------------------------------------
(* Bounds of the model *)

\* rows (materials) of the sheet
NumRows == 2
\* how many of the twelve months, from January on, the sheet and the page use
NumMonths == 2
\* "Save" clicks a session is followed through
MaxSaves == 1

----------------------------------------------------------------------------
(* Cell values: a Python number, a Python str, or the float nan *)

Num(v) == [t |-> "num", v |-> v, s |-> <<>>]
Str(s) == [t |-> "str", v |-> 0, s |-> s]
NaN == [t |-> "nan", v |-> 0, s |-> <<>>]

IsNum(c) == c.t = "num"
IsStr(c) == c.t = "str"
IsNaN(c) == c.t = "nan"

Digits == <<"0", "1", "2", "3", "4", "5", "6", "7", "8", "9">>

DigitSet == {"0", "1", "2", "3", "4", "5", "6", "7", "8", "9"}

IsDigit(ch) == ch \in DigitSet

DigitVal(ch) ==
  CASE ch = "0" -> 0 [] ch = "1" -> 1 [] ch = "2" -> 2 [] ch = "3" -> 3
    [] ch = "4" -> 4 [] ch = "5" -> 5 [] ch = "6" -> 6 [] ch = "7" -> 7
    [] ch = "8" -> 8 [] ch = "9" -> 9

\* decimal digits of a natural number, most significant first
RECURSIVE NatChars(_)
NatChars(n) == IF n < 10 THEN <<Digits[n + 1]>>
               ELSE NatChars(n \div 10) \o <<Digits[(n % 10) + 1]>>

\* the three digits of a count of thousandths, with trailing zeros dropped
\* down to one digit, as repr() of a float prints its fraction
FracChars(f) ==
  LET d1 == f \div 100
      d2 == (f \div 10) % 10
      d3 == f % 10
  IN  IF d3 # 0 THEN <<Digits[d1 + 1], Digits[d2 + 1], Digits[d3 + 1]>>
      ELSE IF d2 # 0 THEN <<Digits[d1 + 1], Digits[d2 + 1]>>
      ELSE <<Digits[d1 + 1]>>

\* str(val) of a cell value
PyStr(c) ==
  IF IsStr(c) THEN c.s
  ELSE IF IsNaN(c) THEN <<"n", "a", "n">>
  ELSE LET a == IF c.v < 0 THEN -c.v ELSE c.v
           sign == IF c.v < 0 THEN <<"-">> ELSE <<>>
       IN  sign \o NatChars(a \div 1000) \o <<".">> \o FracChars(a % 1000)

\* Replace with a fault seeded: the separators are left in the text
ReplaceKeepsCommas(s, old) == s

\* s.replace(old, '') for a one-character old
Replace(s, old) == SelectSeq(s, LAMBDA ch : ch # old)

RECURSIVE LStrip(_)
LStrip(s) == IF s # <<>> /\ Head(s) = " " THEN LStrip(Tail(s)) ELSE s

RECURSIVE RStrip(_)
RStrip(s) == IF s # <<>> /\ s[Len(s)] = " " THEN RStrip(SubSeq(s, 1, Len(s) - 1))
             ELSE s

\* s.strip()
Strip(s) == RStrip(LStrip(s))

\* value of the first n digits of a digit string
RECURSIVE DigitsValTo(_, _)
DigitsValTo(s, n) == IF n = 0 THEN 0
                     ELSE 10 * DigitsValTo(s, n - 1) + DigitVal(s[n])

\* value of a digit string read as a natural number
DigitsVal(s) == DigitsValTo(s, Len(s))

\* the first three fraction digits as thousandths
FracVal(s) ==
  LET d(i) == IF i <= Len(s) THEN DigitVal(s[i]) ELSE 0
  IN  100 * d(1) + 10 * d(2) + d(3)

AllDigits(s) == \A i \in 1..Len(s) : IsDigit(s[i])

\* a numeric literal without its sign
Unsigned(s) == IF s # <<>> /\ Head(s) \in {"-", "+"} THEN Tail(s) ELSE s

\* position of the first "." of a literal from position i on, 0 for none
RECURSIVE DotFrom(_, _)
DotFrom(body, i) ==
  IF i > Len(body) THEN 0
  ELSE IF body[i] = "." THEN i ELSE DotFrom(body, i + 1)

DotAt(body) == DotFrom(body, 1)

\* the value of integer digits ip and fraction digits fp: digits only (a
\* second "." is no digit) and at least one of them
FloatOfParts(ip, fp, neg) ==
  IF AllDigits(ip) /\ AllDigits(fp) /\ Len(ip) + Len(fp) > 0
  THEN [ok |-> TRUE,
        val |-> Num((IF neg THEN -1 ELSE 1)
                    * (1000 * DigitsVal(ip) + FracVal(fp)))]
  ELSE [ok |-> FALSE, val |-> Num(0)]

\* the literal body cut at its first ".", at position k
FloatSplit(body, k, neg) ==
  IF k = 0 THEN FloatOfParts(body, <<>>, neg)
  ELSE FloatOfParts(SubSeq(body, 1, k - 1), SubSeq(body, k + 1, Len(body)),
                    neg)

FloatOfUnsigned(body, neg) ==
  IF body = <<"n", "a", "n">> THEN [ok |-> TRUE, val |-> NaN]
  ELSE FloatSplit(body, DotAt(body), neg)

\* float() of a text that has been stripped
FloatOf(s) == FloatOfUnsigned(Unsigned(s), s # <<>> /\ Head(s) = "-")

\* float(text): [ok, val]; ok = FALSE stands for the ValueError
PyFloat(text) == FloatOf(Strip(text))

\* pd.to_numeric(x, errors='coerce') of a scalar: a number is returned as
\* it is, text is parsed as written (no comma removal) and becomes nan when
\* it is not a number; the empty string is nan
Coerce(f, exact) == IF f.ok /\ exact THEN f.val ELSE NaN

ToNumeric(c) ==
  IF ~IsStr(c) THEN c ELSE Coerce(PyFloat(c.s), Strip(c.s) = c.s)

\* bool(x) of a number: nan is truthy, only zero is falsy
Truthy(c) == ~(IsNum(c) /\ c.v = 0)

\* Python's  x or d
PyOr(c, d) == IF Truthy(c) THEN c ELSE d

\* a + b on floats
FAdd(a, b) == IF IsNaN(a) \/ IsNaN(b) THEN NaN ELSE Num(a.v + b.v)

\* nearest integer to n / d (d > 0), a tie going to the even neighbour
\* RoundDiv with a fault seeded: the quotient cut off instead of rounded
RoundDivDown(n, d) == n \div d

RoundDiv(n, d) ==
  LET q == n \div d
      r == n % d
  IN  IF 2 * r < d THEN q
      ELSE IF 2 * r > d THEN q + 1
      ELSE IF q % 2 = 0 THEN q ELSE q + 1

----------------------------------------------------------------------------
(* The page's fixed lists and the sheet it is pointed at *)

site_options == <<"CliffordRd", "KPark", "HarrisDrive">>

AllMonths == <<"January", "February", "March", "April", "May", "June", "July",
               "August", "September", "October", "November", "December">>

months == SubSeq(AllMonths, 1, NumMonths)

Metrics == <<"Rolls", "Pallets", "SquareM">>

Range(seq) == {seq[i] : i \in 1..Len(seq)}

\* the two concurrent browser sessions the model follows
Sessions == {"A", "B"}

\* DataFrame index of the rows
Rows == 0..(NumRows - 1)

\* f"{site}_{metric} {month}"
ColName(site, metric, month) == site \o "_" \o metric \o " " \o month

\* The sheets the page is started on.  "multi" carries all three sites, with
\* the KPark area column of February labelled "Feb" and two HarrisDrive
\* columns missing; "single" carries the CliffordRd columns only.
ObsTriples ==
  [i \in 1..(3 * 3 * NumMonths) |->
     [site |-> site_options[(((i - 1) \div 3) % 3) + 1],
      metric |-> Metrics[((i - 1) % 3) + 1],
      month |-> months[((i - 1) \div 9) + 1]]]

Absent(layout, t) ==
  IF layout = "single" THEN t.site # "CliffordRd"
  ELSE \/ t.site = "HarrisDrive" /\ t.metric = "Rolls" /\ t.month = "January"
       \/ t.site = "HarrisDrive" /\ t.metric = "Pallets" /\ t.month = "February"

SheetLabel(layout, t) ==
  IF layout = "multi" /\ t.site = "KPark" /\ t.metric = "SquareM"
     /\ t.month = "February"
  THEN ColName(t.site, t.metric, "Feb")
  ELSE ColName(t.site, t.metric, t.month)

PresentTriples(layout) == SelectSeq(ObsTriples, LAMBDA t : ~Absent(layout, t))

\* the columns the page reads by name, whatever the site and the month
FixedCols ==
  <<"Material", "Laminate", "Code", "Meters_per_Roll", "Rolls_on_Pallet">>

Header(layout) ==
  FixedCols \o [i \in 1..Len(PresentTriples(layout)) |->
                  SheetLabel(layout, PresentTriples(layout)[i])]

\* (Meters_per_Roll, Rolls_on_Pallet) of a material, as the sheet holds them
ConstPairs ==
  << <<Num(2500), Num(20000)>>,
     <<Num(125), Num(3000)>>,
     <<Num(2500), Num(0)>>,
     <<Str(<<>>), Num(8000)>>,
     <<Num(125), Str(<<"a", "b", "c">>)>> >>

\* the constants of row r in the profile-th sheet: the pairs are dealt out
\* row by row, sheet after sheet
RowConsts(profile, r) ==
  ConstPairs[(((profile - 1) * NumRows + r) % Len(ConstPairs)) + 1]

\* the sheets a behaviour starts from: <<layout, profile>>
Starts == {<<"multi", 1>>, <<"multi", 2>>, <<"multi", 3>>, <<"single", 1>>}

\* the sheets the two-session behaviours start from
StartsTwo == {<<"multi", 1>>, <<"multi", 3>>}

\* the observation cells the sheet starts with: text cells at CliffordRd in
\* January, empty cells in the HarrisDrive area column of January, numbers
\* elsewhere, the derived cells not yet brought up to date
InitObs(r, t) ==
  IF t.site = "CliffordRd" /\ t.month = "January" THEN
     IF r = 0 THEN
        CASE t.metric = "Rolls" -> Str(<<"1", ",", "2", "5", "0">>)
          [] t.metric = "Pallets" -> Str(<<" ", "7", " ">>)
          [] OTHER -> Str(<<"a", "b", "c">>)
     ELSE
        CASE t.metric = "Rolls" -> Num(3000)
          [] t.metric = "Pallets" -> Num(500)
          [] OTHER -> Num(7500)
  ELSE
     CASE t.metric = "Rolls" ->
            IF t.site = "KPark" THEN Num(1000 * (3 * r + 2))
            ELSE Num(1000 * (2 * r + 1))
       [] t.metric = "Pallets" -> Num(0)
       [] OTHER ->
            IF t.site = "HarrisDrive" /\ t.month = "January" /\ r > 0
            THEN Str(<<>>)
            ELSE Num(1500)

InitSheet(layout, profile) ==
  [hdr |-> Header(layout),
   grid |-> [n \in 2..(NumRows + 1) |->
               << Str(<<"M", Digits[n]>>),
                  Str(<<"L">>),
                  Str(<<"C", Digits[n]>>),
                  RowConsts(profile, n - 2)[1],
                  RowConsts(profile, n - 2)[2] >>
               \o [i \in 1..Len(PresentTriples(layout)) |->
                     InitObs(n - 2, PresentTriples(layout)[i])]]]

\* df.columns.get_loc(col) + 1
ColIdx(columns, col) == CHOOSE i \in 1..Len(columns) : columns[i] = col

\* load_data(): every record of the sheet, keyed by header
load_data(sh) ==
  [columns |-> sh.hdr,
   at |-> [r \in Rows |->
             [c \in Range(sh.hdr) |-> sh.grid[r + 2][ColIdx(sh.hdr, c)]]]]

\* row.get(col, 0)
RowGet(row, col) == IF col \in DOMAIN row THEN row[col] ELSE Num(0)

----------------------------------------------------------------------------
(* State *)

VARIABLES
  sheet,            \* the Google sheet: header row and data rows 2, 3, ...
  df,               \* st.session_state.df of each session
  selected_site,    \* sidebar selectbox, per session
  selected_month,   \* sidebar selectbox, per session
  edits,            \* data_editor: the Rolls cells typed over at the last Save
  selected_mat,     \* trend selectbox: the material's name
  selected_metric,  \* trend radio
  message,          \* outcome of the last run: "", "success" or the error
  updates,          \* the batch the last Save click built
  summary,          \* GROSS SUMMARY of the last run: row -> metric -> total
  summary_cols,     \* col_name of the summary, metric -> site -> name
  trend_values,     \* TRENDS of the last run
  trend_cols,       \* col_name of the trend, per month
  nsaves            \* Save clicks so far, per session

vars == <<sheet, df, selected_site, selected_month, edits, selected_mat,
          selected_metric, message, updates, summary, summary_cols,
          trend_values, trend_cols, nsaves>>

----------------------------------------------------------------------------
(* 5. DATA EDITOR *)

roll_col(site, month) == ColName(site, "Rolls", month)
pallet_col(site, month) == ColName(site, "Pallets", month)
square_col(site, month) == ColName(site, "SquareM", month)

available_cols(d, site, month) ==
  SelectSeq(<<roll_col(site, month), pallet_col(site, month),
              square_col(site, month)>>,
            LAMBDA c : c \in Range(d.columns))

NoEdits == [r \in Rows |-> [on |-> FALSE, val |-> Num(0)]]

\* edited_df: the displayed slice of df with the typed cells laid over it
edited_df(d, site, month, ed) ==
  [r \in Rows |->
     [c \in Range(available_cols(d, site, month)) |->
        IF c = roll_col(site, month) /\ ed[r].on THEN ed[r].val
        ELSE d.at[r][c]]]

\* what the user types into a Rolls cell
RollsInputs == {Num(100000)}

\* the ways the user can have typed over the Rolls cells before a click:
\* none when the Rolls column is not shown
EditChoices(d, site, month) ==
  IF roll_col(site, month) \in Range(d.columns)
  THEN [Rows -> {[on |-> FALSE, val |-> Num(0)]}
                \cup {[on |-> TRUE, val |-> v] : v \in RollsInputs}]
  ELSE {NoEdits}

----------------------------------------------------------------------------
(* 6. GROSS SUMMARY and 7. TRENDS *)

\* SummaryMonth with a fault seeded: the KPark exception forgotten
SummaryMonthRegular(site, metric, month) == month

SummaryMonth(site, metric, month) ==
  IF month = "February" /\ site = "KPark" /\ metric = "SquareM"
  THEN "Feb" ELSE month

SummaryCol(site, metric, month) ==
  ColName(site, metric, SummaryMonth(site, metric, month))

\* total += float(str(val).replace(',', '').strip()) if str(val).strip() != ""
\* else 0, inside try / except: pass
AddParsed(total, f) == IF f.ok THEN FAdd(total, f.val) ELSE total

AccumulateText(total, text) ==
  IF Strip(text) # <<>>
  THEN AddParsed(total, PyFloat(Strip(Replace(text, ","))))
  ELSE FAdd(total, Num(0))

Accumulate(total, val) == AccumulateText(total, PyStr(val))

RECURSIVE SiteTotal(_, _, _, _)
SiteTotal(row, metric, month, n) ==
  IF n = 0 THEN Num(0)
  ELSE Accumulate(SiteTotal(row, metric, month, n - 1),
                  RowGet(row, SummaryCol(site_options[n], metric, month)))

GrossSummary(d, month) ==
  [r \in Rows |->
     [metric \in Range(Metrics) |->
        SiteTotal(d.at[r], metric, month, Len(site_options))]]

SummaryCols(month) ==
  [metric \in Range(Metrics) |->
     [site \in Range(site_options) |-> SummaryCol(site, metric, month)]]

TrendMonth(site, metric, m) ==
  IF m = "February" /\ site = "KPark" /\ metric = "SquareM" THEN "Feb" ELSE m

TrendCol(site, metric, m) == ColName(site, metric, TrendMonth(site, metric, m))

\* trend_values.append(float(...) if str(val).strip() != "" else 0), and 0
\* on an exception
ParsedOrZero(f) == IF f.ok THEN f.val ELSE Num(0)

TrendText(text) ==
  IF Strip(text) # <<>>
  THEN ParsedOrZero(PyFloat(Strip(Replace(text, ","))))
  ELSE Num(0)

TrendValue(val) == TrendText(PyStr(val))

\* df[df['Material'] == selected_mat].iloc[0]
MatRow(d, mat) ==
  CHOOSE r \in Rows :
    /\ d.at[r]["Material"] = mat
    /\ \A q \in Rows : d.at[q]["Material"] = mat => r <= q

Trend(d, site, mat, metric) ==
  [i \in 1..Len(months) |->
     TrendValue(RowGet(d.at[MatRow(d, mat)],
                       TrendCol(site, metric, months[i])))]

TrendCols(site, metric) ==
  [i \in 1..Len(months) |-> TrendCol(site, metric, months[i])]

----------------------------------------------------------------------------
(* SAVE & DUAL AUTO-CALCULATE LOGIC *)

\* round(new_rolls / rolls_per_pal, 2) if rolls_per_pal > 0 else 0;
\* err is the exception the expression raises, "" for none
CalcPallets(new_rolls, rolls_per_pal) ==
  IF IsNum(rolls_per_pal) /\ rolls_per_pal.v > 0
  THEN IF IsStr(new_rolls) THEN [err |-> "TypeError", val |-> Num(0)]
       ELSE IF IsNaN(new_rolls) THEN [err |-> "", val |-> NaN]
       ELSE [err |-> "",
             val |-> Num(10 * RoundDiv(100 * new_rolls.v, rolls_per_pal.v))]
  ELSE [err |-> "", val |-> Num(0)]

\* round(new_rolls * m_per_roll, 2)
CalcSqm(new_rolls, m_per_roll) ==
  IF IsStr(new_rolls) THEN [err |-> "TypeError", val |-> Num(0)]
  ELSE IF IsNaN(new_rolls) \/ IsNaN(m_per_roll) THEN [err |-> "", val |-> NaN]
  ELSE [err |-> "",
        val |-> Num(10 * RoundDiv(new_rolls.v * m_per_roll.v, 10000))]

\* m_per_roll = pd.to_numeric(df.at[index, "Meters_per_Roll"], ...) or 0
MPerRoll(d, index) == PyOr(ToNumeric(d.at[index]["Meters_per_Roll"]), Num(0))

\* rolls_per_pal = pd.to_numeric(df.at[index, "Rolls_on_Pallet"], ...) or 1
RollsPerPal(d, index) ==
  PyOr(ToNumeric(d.at[index]["Rolls_on_Pallet"]), Num(1000))

\* st.session_state.df.at[index, col] = val
SetAt(d, index, col, val) == [d EXCEPT !.at[index][col] = val]

\* {'range': rowcol_to_a1(index + 2, get_loc(col) + 1), 'values': [[val]]}
Update(d, index, col, val) ==
  [row |-> index + 2, col |-> ColIdx(d.columns, col), val |-> val]

\* st with the cell (index, col) set to val and its write queued
Write(st, index, col, val) ==
  [d |-> SetAt(st.d, index, col, val),
   ups |-> Append(st.ups, Update(st.d, index, col, val)),
   err |-> ""]

\* a derived cell: the exception of its expression ends the pass
WriteCalc(st, index, col, calc) ==
  IF calc.err # "" THEN [st EXCEPT !.err = calc.err]
  ELSE Write(st, index, col, calc.val)

\* 1. Update Rolls
WriteRolls(st, index, col, new_rolls) == Write(st, index, col, new_rolls)

\* WritePallets with a fault seeded: the Pallets cell is never computed
WritePalletsSkipped(st, index, col, new_rolls, rolls_per_pal) == st

\* 2. Update Pallets (Rolls / Rolls per Pallet)
WritePallets(st, index, col, new_rolls, rolls_per_pal) ==
  IF col \notin Range(st.d.columns) THEN st
  ELSE WriteCalc(st, index, col, CalcPallets(new_rolls, rolls_per_pal))

\* 3. Update SquareM (Rolls * Meters per Roll)
WriteSqm(st, index, col, new_rolls, m_per_roll) ==
  IF st.err # "" \/ col \notin Range(st.d.columns) THEN st
  ELSE WriteCalc(st, index, col, CalcSqm(new_rolls, m_per_roll))

\* One pass of the body of  for index, row in edited_df.iterrows()  on
\* st = [d, ups, err]; after an exception nothing more runs.
SaveRow(st, index, row, site, month) ==
  IF st.err # "" THEN st
  ELSE IF roll_col(site, month) \notin DOMAIN row
  THEN [st EXCEPT !.err = "KeyError"]
  ELSE WriteSqm(
         WritePallets(
           WriteRolls(st, index, roll_col(site, month),
                      row[roll_col(site, month)]),
           index, pallet_col(site, month), row[roll_col(site, month)],
           RollsPerPal(st.d, index)),
         index, square_col(site, month), row[roll_col(site, month)],
         MPerRoll(st.d, index))

\* the loop over the first n rows (the one-element set binds the state the
\* earlier passes left, so that it is computed once)
RECURSIVE SaveLoop(_, _, _, _, _)
SaveLoop(d, ed, site, month, n) ==
  IF n = 0 THEN [d |-> d, ups |-> <<>>, err |-> ""]
  ELSE CHOOSE out \in {SaveRow(st, n - 1, ed[n - 1], site, month) :
                         st \in {SaveLoop(d, ed, site, month, n - 1)}} : TRUE

\* batch_update with a fault seeded: only the first row of the table is written
batch_update_first_row(sh, ups) ==
  [sh EXCEPT !.grid[2] =
     [c \in 1..Len(sh.hdr) |->
        IF \E i \in 1..Len(ups) : ups[i].row = 2 /\ ups[i].col = c
        THEN ups[CHOOSE i \in 1..Len(ups) :
                   ups[i].row = 2 /\ ups[i].col = c].val
        ELSE sh.grid[2][c]]]

\* sheet.batch_update(updates): every cell write of the batch, by position
batch_update(sh, ups) ==
  [sh EXCEPT !.grid =
     [n \in DOMAIN sh.grid |->
        [c \in 1..Len(sh.hdr) |->
           IF \E i \in 1..Len(ups) : ups[i].row = n /\ ups[i].col = c
           THEN ups[CHOOSE i \in 1..Len(ups) :
                      /\ ups[i].row = n /\ ups[i].col = c
                      /\ \A j \in 1..Len(ups) :
                           ups[j].row = n /\ ups[j].col = c => j <= i].val
           ELSE sh.grid[n][c]]]]

\* a batch holding nan cannot be sent: it is not JSON
Sendable(ups) == \A i \in 1..Len(ups) : ~IsNaN(ups[i].val)

----------------------------------------------------------------------------
(* The script run that ends every interaction *)

\* unique_materials[0], the trend selectbox's default
FirstMaterial(d) == d.at[0]["Material"]

\* sections 6 and 7 of the script, run on the session's table d
Render(s, d, site, month, mat, metric) ==
  /\ summary' = [summary EXCEPT ![s] = GrossSummary(d, month)]
  /\ summary_cols' = [summary_cols EXCEPT ![s] = SummaryCols(month)]
  /\ trend_values' = [trend_values EXCEPT ![s] = Trend(d, site, mat, metric)]
  /\ trend_cols' = [trend_cols EXCEPT ![s] = TrendCols(site, metric)]

InitOn(starts) ==
  /\ \E st \in starts : sheet = InitSheet(st[1], st[2])
  /\ df = [s \in Sessions |-> load_data(sheet)]
  /\ selected_site = [s \in Sessions |-> site_options[1]]
  /\ selected_month = [s \in Sessions |-> months[1]]
  /\ edits = [s \in Sessions |-> NoEdits]
  /\ selected_mat = [s \in Sessions |-> FirstMaterial(df[s])]
  /\ selected_metric = [s \in Sessions |-> Metrics[1]]
  /\ message = [s \in Sessions |-> ""]
  /\ updates = [s \in Sessions |-> <<>>]
  /\ summary = [s \in Sessions |-> GrossSummary(df[s], selected_month[s])]
  /\ summary_cols = [s \in Sessions |-> SummaryCols(selected_month[s])]
  /\ trend_values = [s \in Sessions |->
                       Trend(df[s], selected_site[s], selected_mat[s],
                             selected_metric[s])]
  /\ trend_cols = [s \in Sessions |->
                     TrendCols(selected_site[s], selected_metric[s])]
  /\ nsaves = [s \in Sessions |-> 0]

Init == InitOn(Starts)

\* a session is followed up to its last Save click
Active(s) == nsaves[s] < MaxSaves

\* a run that is not a Save click: no outcome, no batch, the editor fresh
Plain(s) ==
  /\ edits' = [edits EXCEPT ![s] = NoEdits]
  /\ message' = [message EXCEPT ![s] = ""]
  /\ updates' = [updates EXCEPT ![s] = <<>>]
  /\ UNCHANGED <<sheet, nsaves>>

\* sidebar: Select Site to Update
SelectSite(s, site) ==
  /\ Active(s)
  /\ site # selected_site[s]
  /\ selected_site' = [selected_site EXCEPT ![s] = site]
  /\ Plain(s)
  /\ Render(s, df[s], site, selected_month[s], selected_mat[s],
            selected_metric[s])
  /\ UNCHANGED <<df, selected_month, selected_mat, selected_metric>>

\* sidebar: Select Month
SelectMonth(s, month) ==
  /\ Active(s)
  /\ month # selected_month[s]
  /\ selected_month' = [selected_month EXCEPT ![s] = month]
  /\ Plain(s)
  /\ Render(s, df[s], selected_site[s], month, selected_mat[s],
            selected_metric[s])
  /\ UNCHANGED <<df, selected_site, selected_mat, selected_metric>>

\* trends: Select Material
SelectMaterial(s, r) ==
  /\ Active(s)
  /\ df[s].at[r]["Material"] # selected_mat[s]
  /\ selected_mat' = [selected_mat EXCEPT ![s] = df[s].at[r]["Material"]]
  /\ Plain(s)
  /\ Render(s, df[s], selected_site[s], selected_month[s],
            df[s].at[r]["Material"], selected_metric[s])
  /\ UNCHANGED <<df, selected_site, selected_month, selected_metric>>

\* trends: Metric
SelectMetric(s, metric) ==
  /\ Active(s)
  /\ metric # selected_metric[s]
  /\ selected_metric' = [selected_metric EXCEPT ![s] = metric]
  /\ Plain(s)
  /\ Render(s, df[s], selected_site[s], selected_month[s], selected_mat[s],
            metric)
  /\ UNCHANGED <<df, selected_site, selected_month, selected_mat>>

\* sidebar: Sync with Google Sheets (load, then st.rerun())
Sync(s) ==
  /\ Active(s)
  /\ df' = [df EXCEPT ![s] = load_data(sheet)]
  /\ Plain(s)
  /\ Render(s, load_data(sheet), selected_site[s], selected_month[s],
            selected_mat[s], selected_metric[s])
  /\ UNCHANGED <<selected_site, selected_month, selected_mat, selected_metric>>

\* what the loop of a Save click in session s comes to, the user having
\* typed ed into the editor
SaveResult(s, ed) ==
  SaveLoop(df[s],
           edited_df(df[s], selected_site[s], selected_month[s], ed),
           selected_site[s], selected_month[s], NumRows)

\* the rest of the run of a Save click whose loop came to res
SaveRun(s, ed, res, msg) ==
  /\ nsaves' = [nsaves EXCEPT ![s] = @ + 1]
  /\ df' = [df EXCEPT ![s] = res.d]
  /\ edits' = [edits EXCEPT ![s] = ed]
  /\ updates' = [updates EXCEPT ![s] = res.ups]
  /\ message' = [message EXCEPT ![s] = msg]
  /\ Render(s, res.d, selected_site[s], selected_month[s], selected_mat[s],
            selected_metric[s])
  /\ UNCHANGED <<selected_site, selected_month, selected_mat, selected_metric>>

\* Save click: the loop raises, and the except branch reports it
SaveRaises(s) ==
  /\ Active(s)
  /\ \E ed \in EditChoices(df[s], selected_site[s], selected_month[s]) :
     \E res \in {SaveResult(s, ed)} :
       /\ res.err # ""
       /\ SaveRun(s, ed, res, "error: " \o res.err)
  /\ UNCHANGED sheet

\* Save click: the loop completes and batch_update raises
SaveRejected(s) ==
  /\ Active(s)
  /\ \E ed \in EditChoices(df[s], selected_site[s], selected_month[s]) :
     \E res \in {SaveResult(s, ed)} :
       /\ res.err = ""
       /\ SaveRun(s, ed, res, "error: batch_update")
  /\ UNCHANGED sheet

\* Save click: the loop completes, the batch is written, st.rerun()
SaveDone(s) ==
  /\ Active(s)
  /\ \E ed \in EditChoices(df[s], selected_site[s], selected_month[s]) :
     \E res \in {SaveResult(s, ed)} :
       /\ res.err = ""
       /\ Sendable(res.ups)
       /\ SaveRun(s, ed, res, "success")
       /\ sheet' = batch_update(sheet, res.ups)

Navigate(s) ==
  \/ \E site \in Range(site_options) : SelectSite(s, site)
  \/ \E month \in Range(months) : SelectMonth(s, month)
  \/ Sync(s)

Save(s) == SaveRaises(s) \/ SaveRejected(s) \/ SaveDone(s)

Browse(s) ==
  \/ \E r \in Rows : SelectMaterial(s, r)
  \/ \E metric \in Range(Metrics) : SelectMetric(s, metric)

\* one session editing and saving
Next == Navigate("A") \/ Save("A")

Spec == Init /\ [][Next]_vars

\* one session looking at the summary and the trends
NextView == Navigate("A") \/ Browse("A")

SpecView == Init /\ [][NextView]_vars

\* two sessions on the full sheet, both at the site and month they start on
InitTwo == InitOn(StartsTwo)

NextTwo == \E s \in Sessions : Sync(s) \/ Save(s)

SpecTwo == InitTwo /\ [][NextTwo]_vars

----------------------------------------------------------------------------
(* C1: the gross totals *)

\* what a cell is worth to a total, read off the cell and not computed by
\* the page: a number is itself, nan is nan, the text "1,250" is 1250.0,
\* " 7 " is 7.0, and any other text of the sheets ("", "abc") is 0
C1_Worth(c) ==
  IF IsNum(c) THEN c
  ELSE IF IsNaN(c) THEN NaN
  ELSE IF c.s = <<"1", ",", "2", "5", "0">> THEN Num(1250000)
  ELSE IF c.s = <<" ", "7", " ">> THEN Num(7000)
  ELSE Num(0)

\* what the site's column of the metric is worth in row r of session s;
\* an absent column is worth 0
C1_SiteWorth(s, r, site, metric) ==
  IF summary_cols[s][metric][site] \in DOMAIN df[s].at[r]
  THEN C1_Worth(df[s].at[r][summary_cols[s][metric][site]])
  ELSE Num(0)

\* C1: for every row, metric and selected month the gross total of the
\* summary is the sum over CliffordRd, KPark and HarrisDrive of the resolved
\* cells after tolerant parsing; an absent column, an empty text and a text
\* that is no number count 0 and leave the other sites' share as it is.
C1_GrossIsSumOverSites ==
  \A s \in Sessions : \A r \in Rows : \A metric \in Range(Metrics) :
    summary[s][r][metric] =
      FAdd(FAdd(C1_SiteWorth(s, r, "CliffordRd", metric),
                C1_SiteWorth(s, r, "KPark", metric)),
           C1_SiteWorth(s, r, "HarrisDrive", metric))

\* January on the three-site sheet: row 0 holds "1,250", " 7 " and "abc" at
\* CliffordRd, the HarrisDrive Rolls column is absent, and the totals are
\* 1250 + 2 + 0, 7 + 0 + 0 and 0 + 1.5 + 1.5; row 1 has an empty text in
\* the HarrisDrive area column and the area total 7.5 + 1.5 + 0
C1_Witness ==
  /\ selected_month["A"] = "January"
  /\ "HarrisDrive_Rolls January" \notin Range(df["A"].columns)
  /\ df["A"].at[0]["CliffordRd_Rolls January"] = Str(<<"1", ",", "2", "5", "0">>)
  /\ df["A"].at[0]["CliffordRd_SquareM January"] = Str(<<"a", "b", "c">>)
  /\ summary["A"][0]["Rolls"] = Num(1252000)
  /\ summary["A"][0]["Pallets"] = Num(7000)
  /\ summary["A"][0]["SquareM"] = Num(3000)
  /\ df["A"].at[1]["HarrisDrive_SquareM January"] = Str(<<>>)
  /\ summary["A"][1]["SquareM"] = Num(9000)

----------------------------------------------------------------------------
(* C2: column resolution of the summary and the trend *)

C2_Expected(site, metric, month) ==
  IF site = "KPark" /\ metric = "SquareM" /\ month = "February"
  THEN "KPark_SquareM Feb"
  ELSE site \o "_" \o metric \o " " \o month

\* C2 as amended: the summary and the trend resolve (KPark, SquareM,
\* February) to "KPark_SquareM Feb" and every other (site, metric, month) to
\* "{site}_{metric} {month}"; no site has a form without the site prefix.
C2_ResolvedNames ==
  \A s \in Sessions :
    /\ \A metric \in Range(Metrics) : \A site \in Range(site_options) :
         summary_cols[s][metric][site] =
           C2_Expected(site, metric, selected_month[s])
    /\ \A i \in 1..Len(months) :
         trend_cols[s][i] =
           C2_Expected(selected_site[s], selected_metric[s], months[i])

\* the summary of February and the SquareM trend of KPark
C2_Witness ==
  /\ selected_month["A"] = "February"
  /\ selected_site["A"] = "KPark"
  /\ selected_metric["A"] = "SquareM"
  /\ summary_cols["A"]["SquareM"]["KPark"] = "KPark_SquareM Feb"
  /\ summary_cols["A"]["SquareM"]["CliffordRd"] = "CliffordRd_SquareM February"
  /\ trend_cols["A"][1] = "KPark_SquareM January"
  /\ trend_cols["A"][2] = "KPark_SquareM Feb"

\* C2 as stated: besides the KPark exception, one site (the legacy site)
\* has its square-area columns resolved without the site prefix.
C2_LegacySiteOmitted ==
  \A s \in Sessions :
    \E legacy \in Range(site_options) :
      \A metric \in Range(Metrics) : \A site \in Range(site_options) :
        summary_cols[s][metric][site] =
          IF site = legacy /\ metric = "SquareM"
          THEN metric \o " " \o selected_month[s]
          ELSE C2_Expected(site, metric, selected_month[s])

----------------------------------------------------------------------------
(* What the claims about Save speak of *)

\* the run that just ended in session s was a Save click whose loop ran to
\* its end (the batch was then written, or was refused)
LoopCompleted(s) == message[s] \in {"success", "error: batch_update"}

\* the columns of the selected site and month that the table holds
Shown(s) == Range(available_cols(df[s], selected_site[s], selected_month[s]))

RollsOf(s) == roll_col(selected_site[s], selected_month[s])
PalletsOf(s) == pallet_col(selected_site[s], selected_month[s])
SquareMOf(s) == square_col(selected_site[s], selected_month[s])

\* the cell of the sheet under column c of table row r
SheetCell(sh, r, c) == sh.grid[r + 2][ColIdx(sh.hdr, c)]

\* a constant that is a number / that is missing or not a number
Numeric(c) == IsNum(c)
Missing(c) == IsStr(c) /\ c.s \in {<<>>, <<"a", "b", "c">>}

\* a step of the behaviour that is a Save click of session s
SaveStep(s) == nsaves'[s] = nsaves[s] + 1

----------------------------------------------------------------------------
(* C3: Rolls_on_Pallet 0 or missing *)

\* C3 as stated: after a save whose loop completed, every row whose
\* Rolls_on_Pallet is 0 or missing has 0 in its Pallets cell.
C3_ZeroDivisorGivesZero ==
  \A s \in Sessions :
    LoopCompleted(s) /\ PalletsOf(s) \in Shown(s) =>
      \A r \in Rows :
        \/ df[s].at[r]["Rolls_on_Pallet"] = Num(0)
        \/ Missing(df[s].at[r]["Rolls_on_Pallet"])
        => df[s].at[r][PalletsOf(s)] = Num(0)

----------------------------------------------------------------------------
(* C4: which rows a save writes *)

\* C4 as stated: a save issues no write for a row whose Rolls was not
\* edited.
C4_UneditedRowsNotWritten ==
  \A s \in Sessions :
    message[s] = "success" =>
      \A r \in Rows :
        ~edits[s][r].on =>
          \A i \in 1..Len(updates[s]) : updates[s][i].row # r + 2

\* C4 as amended: a successful save writes, for every row of the table,
\* edited or not, each of the Rolls, Pallets and SquareM columns of the
\* selected site and month that the table holds, with the value the
\* in-memory table then has; a row that was not edited keeps its Rolls
\* value and has its Pallets and SquareM recomputed from it; no cell of any
\* other column changes in the in-memory table or in the sheet.
C4_SaveWritesEveryRow ==
  [][\A s \in Sessions :
       SaveStep(s) /\ message'[s] = "success" =>
         /\ Len(updates'[s]) = NumRows * Cardinality(Shown(s))
         /\ \A r \in Rows : \A c \in Shown(s) :
              /\ \E i \in 1..Len(updates'[s]) :
                   updates'[s][i] = [row |-> r + 2,
                                     col |-> ColIdx(df[s].columns, c),
                                     val |-> df'[s].at[r][c]]
              /\ SheetCell(sheet', r, c) = df'[s].at[r][c]
         /\ \A r \in Rows :
              ~edits'[s][r].on =>
                df'[s].at[r][RollsOf(s)] = df[s].at[r][RollsOf(s)]
         /\ \A r \in Rows : \A c \in Range(df[s].columns) \ Shown(s) :
              /\ df'[s].at[r][c] = df[s].at[r][c]
              /\ SheetCell(sheet', r, c) = SheetCell(sheet, r, c)]_vars

\* a successful save at KPark with row 0 edited and row 1 not: row 1 of the
\* table (row 3 of the sheet) is written all the same, and its Pallets
\* cell, 0 before, is now 5 / 3 = 1.67
C4_Witness ==
  /\ message["A"] = "success"
  /\ selected_site["A"] = "KPark"
  /\ selected_month["A"] = "January"
  /\ edits["A"][0].on
  /\ ~edits["A"][1].on
  /\ Len(updates["A"]) = 3 * NumRows
  /\ df["A"].at[1]["KPark_Rolls January"] = Num(5000)
  /\ df["A"].at[1]["KPark_Pallets January"] = Num(1670)
  /\ \E i \in 1..Len(updates["A"]) :
       updates["A"][i].row = 3 /\ updates["A"][i].val = Num(1670)

----------------------------------------------------------------------------
(* C5: a save while a column of the selected site and month is absent *)

\* C5 as stated, for the save: a Save click made while the Rolls, Pallets
\* or SquareM column of the selected site and month is absent does not
\* raise in its loop.
C5_AbsentColumnNeverRaises ==
  \A s \in Sessions :
    /\ nsaves[s] > 0
    /\ {RollsOf(s), PalletsOf(s), SquareMOf(s)} \ Range(df[s].columns) # {}
    => message[s] \notin {"error: KeyError", "error: TypeError"}

----------------------------------------------------------------------------
(* C6: the derived values *)

\* val is a number of two decimals within half a hundredth of num / den
C6_Close(val, num, den) ==
  /\ IsNum(val)
  /\ val.v % 10 = 0
  /\ val.v * den - num <= 5 * den
  /\ num - val.v * den <= 5 * den

C6_Stored(s, r, c) ==
  /\ SheetCell(sheet, r, c) = df[s].at[r][c]
  /\ \E i \in 1..Len(updates[s]) :
       updates[s][i] = [row |-> r + 2, col |-> ColIdx(df[s].columns, c),
                        val |-> df[s].at[r][c]]

C6_RowDerived(s, r, R, M, P) ==
  /\ PalletsOf(s) \in Shown(s) =>
       /\ C6_Close(df[s].at[r][PalletsOf(s)], 1000 * R.v, P.v)
       /\ C6_Stored(s, r, PalletsOf(s))
  /\ SquareMOf(s) \in Shown(s) =>
       /\ C6_Close(df[s].at[r][SquareMOf(s)], R.v * M.v, 1000)
       /\ C6_Stored(s, r, SquareMOf(s))
  /\ R = Num(100000) /\ M = Num(2500) /\ P = Num(20000) =>
       /\ PalletsOf(s) \in Shown(s) => df[s].at[r][PalletsOf(s)] = Num(5000)
       /\ SquareMOf(s) \in Shown(s) => df[s].at[r][SquareMOf(s)] = Num(250000)
  /\ (\A site \in Range(site_options) \ {selected_site[s]} :
        ColName(site, "Rolls", selected_month[s]) \notin Range(df[s].columns))
     => summary[s][r]["Rolls"] = R

\* C6: after a successful save, for every row with numeric Rolls R,
\* Meters_per_Roll M and Rolls_on_Pallet P > 0, the Pallets cell is a number
\* of two decimals within half a hundredth of R / P and the SquareM cell is
\* one within half a hundredth of R * M, in the in-memory table, in the
\* batch and in the sheet; R = 100, M = 2.5, P = 20 gives 5.0 and 250.0; and
\* where no other site has a Rolls column the gross Rolls total is R.
C6_DerivedValues ==
  \A s \in Sessions :
    message[s] = "success" =>
      \A r \in Rows :
        /\ Numeric(df[s].at[r][RollsOf(s)])
        /\ Numeric(df[s].at[r]["Meters_per_Roll"])
        /\ Numeric(df[s].at[r]["Rolls_on_Pallet"])
        /\ df[s].at[r]["Rolls_on_Pallet"].v > 0
        => C6_RowDerived(s, r, df[s].at[r][RollsOf(s)],
                         df[s].at[r]["Meters_per_Roll"],
                         df[s].at[r]["Rolls_on_Pallet"])

\* the example of the claim on the sheet that has CliffordRd only: row 0
\* edited to 100 with M = 2.5 and P = 20
C6_Witness ==
  /\ message["A"] = "success"
  /\ Range(df["A"].columns) \cap {"KPark_Rolls January",
                                  "HarrisDrive_Rolls February"} = {}
  /\ selected_site["A"] = "CliffordRd"
  /\ edits["A"][0].on
  /\ df["A"].at[0]["Meters_per_Roll"] = Num(2500)
  /\ df["A"].at[0]["Rolls_on_Pallet"] = Num(20000)
  /\ df["A"].at[0][RollsOf("A")] = Num(100000)
  /\ df["A"].at[0][PalletsOf("A")] = Num(5000)
  /\ df["A"].at[0][SquareMOf("A")] = Num(250000)
  /\ SheetCell(sheet, 0, PalletsOf("A")) = Num(5000)
  /\ SheetCell(sheet, 0, SquareMOf("A")) = Num(250000)
  /\ summary["A"][0]["Rolls"] = Num(100000)

----------------------------------------------------------------------------
(* C7: a constant that is missing or not a number *)

\* C7 as stated: no cell of the in-memory table is ever not-a-number, and
\* after a Save click on such a row the run did not fail, its SquareM is 0
\* when Meters_per_Roll is missing and its Pallets equals its Rolls when
\* Rolls_on_Pallet is missing.
C7_MissingConstantDefaults ==
  \A s \in Sessions :
    /\ \A r \in Rows : \A c \in Range(df[s].columns) : ~IsNaN(df[s].at[r][c])
    /\ LoopCompleted(s) =>
         \A r \in Rows :
           /\ Missing(df[s].at[r]["Meters_per_Roll"])
              /\ SquareMOf(s) \in Shown(s)
              => message[s] = "success" /\ df[s].at[r][SquareMOf(s)] = Num(0)
           /\ Missing(df[s].at[r]["Rolls_on_Pallet"])
              /\ PalletsOf(s) \in Shown(s)
              => df[s].at[r][PalletsOf(s)] = df[s].at[r][RollsOf(s)]

----------------------------------------------------------------------------
(* C8: two sessions *)

\* C8: a successful save of a session leaves in the sheet, for every row,
\* edited by it or not, the session's own values in the Rolls, Pallets and
\* SquareM cells of the selected site and month (for a row it did not edit,
\* the Rolls value its snapshot had, whatever another session wrote there
\* before), and leaves the other session's in-memory table alone; a
\* session's table changes only by its own save or its own sync.
C8_LastSaveWins ==
  [][\A s \in Sessions :
       /\ SaveStep(s) /\ message'[s] = "success" =>
            /\ \A r \in Rows : \A c \in Shown(s) :
                 SheetCell(sheet', r, c) = df'[s].at[r][c]
            /\ \A r \in Rows :
                 ~edits'[s][r].on =>
                   SheetCell(sheet', r, RollsOf(s)) = df[s].at[r][RollsOf(s)]
       /\ df'[s] # df[s] =>
            /\ \A o \in Sessions \ {s} : df'[o] = df[o]
            /\ SaveStep(s) \/ (nsaves' = nsaves /\ df'[s] = load_data(sheet))
     ]_vars

\* both sessions have saved for CliffordRd and January from the same
\* snapshot; A had edited row 1 and B had not; B saved last, and the sheet
\* holds B's stale Rolls for row 1 while A's table still holds A's edit
C8_Witness ==
  /\ message["A"] = "success"
  /\ message["B"] = "success"
  /\ edits["A"][1].on
  /\ ~edits["B"][1].on
  /\ df["A"].at[1]["CliffordRd_Rolls January"] = Num(100000)
  /\ df["B"].at[1]["CliffordRd_Rolls January"] = Num(3000)
  /\ SheetCell(sheet, 1, "CliffordRd_Rolls January") = Num(3000)
  /\ \A c \in Shown("B") :
       SheetCell(sheet, 1, c) = df["B"].at[1][c]

----------------------------------------------------------------------------
(* C9: the column a save writes and the column the summary reads *)

\* C9 as stated: the column the summary reads for the SquareM of the
\* selected site and month is the column the save writes, and after a
\* successful save the site's share of the gross SquareM is the derived
\* value of the row.
C9_SaveAndSummaryAgree ==
  \A s \in Sessions :
    message[s] = "success" =>
      /\ summary_cols[s]["SquareM"][selected_site[s]] = SquareMOf(s)
      /\ \A r \in Rows :
           /\ Numeric(df[s].at[r]["Meters_per_Roll"])
           /\ summary_cols[s]["SquareM"][selected_site[s]]
                \in Range(df[s].columns)
           => df[s].at[r][summary_cols[s]["SquareM"][selected_site[s]]] =
                CalcSqm(df[s].at[r][RollsOf(s)],
                        df[s].at[r]["Meters_per_Roll"]).val

----------------------------------------------------------------------------
(* C10: a save that fails *)

\* C10 as stated: with one session writing, the in-memory table and the
\* sheet agree on every Rolls, Pallets and SquareM cell of the selected
\* site and month, whatever saves succeeded or failed.
C10_TableAgreesWithSheet ==
  \A r \in Rows : \A c \in Shown("A") :
    df["A"].at[r][c] = SheetCell(sheet, r, c)

====
